---- MODULE Spec2Model ----
(***************************************************************************)
(* Model of func_validacpf.py: the CPF validator validar_cpf and the two   *)
(* HTTP handlers validar_cpf_http (POST) and validar_cpf_get (GET).        *)
(*                                                                         *)
(* A Python str is a sequence of one-character strings.  A Python value    *)
(* that may or may not be a str (the cpf argument) is a record             *)
(* [tipo, str, falsy].  A dict / JSON object is a record.                  *)
(***************************************************************************)
EXTENDS Integers, Sequences, FiniteSets, TLC

VARIABLES
    req,        \* the invocation: how the validator is reached and with what
    pc,         \* "start" | "done" | "revalidated"
    called,     \* number of times validar_cpf has been entered
    exc,        \* exception raised by the last validar_cpf call, or "none"
    resultado,  \* dict returned by the last validar_cpf call, or Unset
    prev,       \* dict returned by the call before the last one, or Unset
    resposta    \* outcome of the HTTP handler, or NoResposta

vars == <<req, pc, called, exc, resultado, prev, resposta>>

----------------------------------------------------------------------------
(* Bounds of the enumerated inputs *)

\* longest digit string enumerated exhaustively over 0..9
MaxShort == 2
\* most digits appended beyond the eleventh
MaxExtra == 1
\* most padding characters put around an input
MaxPad == 1

----------------------------------------------------------------------------
(* Python values *)

DigitChars == <<"0", "1", "2", "3", "4", "5", "6", "7", "8", "9">>

\* the character class [0-9]
IsDigit(c) == \E n \in 1..Len(DigitChars) : DigitChars[n] = c

\* int(c) for a one-character decimal string
int(c) == (CHOOSE n \in 1..Len(DigitChars) : DigitChars[n] = c) - 1

\* None in a field that otherwise holds a str (a sequence of characters)
None == <<"None">>
\* None in the erro field, whose messages are atomic strings
NoneErro == "None"

PyStr(s) == [tipo |-> "str", str |-> s, falsy |-> (Len(s) = 0)]
PyOther(t, f) == [tipo |-> t, str |-> <<>>, falsy |-> f]
PyNone == PyOther("None", TRUE)

\* `not v`
Not(v) == v.falsy

\* s[a:b] with Python's clamping, for 0 <= a <= b
Slice(s, a, b) ==
    LET hi == IF b < Len(s) THEN b ELSE Len(s)
    IN  IF a >= hi THEN <<>> ELSE SubSeq(s, a + 1, hi)

\* s[a:]
SliceFrom(s, a) == Slice(s, a, Len(s))

----------------------------------------------------------------------------
(* validar_cpf *)

ERRO_TAMANHO == "CPF deve conter 11 digitos"
ERRO_IGUAIS == "CPF nao pode ter todos os digitos iguais"
ERRO_DIGITO1 == "Primeiro digito verificador invalido"
ERRO_DIGITO2 == "Segundo digito verificador invalido"

NaoPontuacao(c) == c \notin {".", "-"}

\* variant: only the punctuation of a formatted CPF is removed
re_sub_pontuacao(cpf) == SelectSeq(cpf, NaoPontuacao)

\* re.sub(r'[^0-9]', '', cpf)
re_sub(cpf) == SelectSeq(cpf, IsDigit)

\* variant: only too few digits are rejected
TamanhoInvalido_menor(cpf) == Len(cpf) < 11

\* len(cpf) != 11
TamanhoInvalido(cpf) == Len(cpf) # 11

\* variant: the comparison string is one character short
TodosIguais_dez(cpf) == cpf = [i \in 1..10 |-> cpf[1]]

\* cpf == cpf[0] * 11
TodosIguais(cpf) == cpf = [i \in 1..11 |-> cpf[1]]

\* soma after `for i in range(n): soma += int(cpf[i]) * (peso - i)`
RECURSIVE soma(_, _, _)
soma(cpf, n, peso) ==
    IF n = 0 THEN 0
    ELSE soma(cpf, n - 1, peso) + int(cpf[n]) * (peso - (n - 1))

\* variant: the threshold of the remainder rule is off by one
digito_limiar(resto) == IF resto < 1 THEN 0 ELSE 11 - resto

\* 0 if resto < 2 else 11 - resto
digito(resto) == IF resto < 2 THEN 0 ELSE 11 - resto

digito1(cpf) == digito(soma(cpf, 9, 10) % 11)

digito2(cpf) == digito(soma(cpf, 10, 11) % 11)

\* variant: the last separator is a dot
cpf_formatado_pontos(cpf) ==
    Slice(cpf, 0, 3) \o <<".">> \o Slice(cpf, 3, 6) \o <<".">>
        \o Slice(cpf, 6, 9) \o <<".">> \o SliceFrom(cpf, 9)

\* variant: the last slice starts one digit late
cpf_formatado_curto(cpf) ==
    Slice(cpf, 0, 3) \o <<".">> \o Slice(cpf, 3, 6) \o <<".">>
        \o Slice(cpf, 6, 9) \o <<"-">> \o SliceFrom(cpf, 10)

\* f"{cpf[:3]}.{cpf[3:6]}.{cpf[6:9]}-{cpf[9:]}"
cpf_formatado(cpf) ==
    Slice(cpf, 0, 3) \o <<".">> \o Slice(cpf, 3, 6) \o <<".">>
        \o Slice(cpf, 6, 9) \o <<"-">> \o SliceFrom(cpf, 9)

Invalido(erro) == [valido |-> FALSE, erro |-> erro, cpf_formatado |-> None]

Valido(cpf) ==
    [valido |-> TRUE, erro |-> NoneErro,
     cpf_formatado |-> cpf_formatado(cpf), cpf_apenas_numeros |-> cpf]

\* variant: the second check digit is tested before the first
validar_cpf_trocado(raw) ==
    LET cpf == re_sub(raw)
    IN  IF TamanhoInvalido(cpf) THEN Invalido(ERRO_TAMANHO)
        ELSE IF TodosIguais(cpf) THEN Invalido(ERRO_IGUAIS)
        ELSE IF digito2(cpf) # int(cpf[11]) THEN Invalido(ERRO_DIGITO2)
        ELSE IF digito1(cpf) # int(cpf[10]) THEN Invalido(ERRO_DIGITO1)
        ELSE Valido(cpf)

\* the body of validar_cpf for a str argument
validar_cpf(raw) ==
    LET cpf == re_sub(raw)
    IN  IF TamanhoInvalido(cpf) THEN Invalido(ERRO_TAMANHO)
        ELSE IF TodosIguais(cpf) THEN Invalido(ERRO_IGUAIS)
        ELSE IF digito1(cpf) # int(cpf[10]) THEN Invalido(ERRO_DIGITO1)
        ELSE IF digito2(cpf) # int(cpf[11]) THEN Invalido(ERRO_DIGITO2)
        ELSE Valido(cpf)

\* re.sub raises TypeError for an argument that is not a str
validar_cpf_exc(arg) == IF arg.tipo = "str" THEN "none" ELSE "TypeError"

----------------------------------------------------------------------------
(* HTTP handlers *)

\* names bound at module level by the import statements
Imports == {"func", "logging", "re"}

ERRO_SEM_CPF_POST == "CPF nao fornecido no corpo da requisicao"
ERRO_CORPO == "Corpo da requisicao invalido"
ERRO_INTERNO == "Erro interno do servidor"
ERRO_SEM_CPF_GET == "Parametro CPF nao fornecido. Use ?cpf=12345678901"

Unset == [unset |-> TRUE]
NoResposta == [raised |-> "none", status |-> 0, body |-> Unset]

\* func.HttpResponse(body, status_code=status)
HttpResponse(body, status) == [raised |-> "none", status |-> status, body |-> body]
\* the handler does not return: the exception leaves it
Raised(e) == [raised |-> e, status |-> 0, body |-> Unset]

\* req.get_json(): ValueError when the body is empty or is not JSON
get_json_exc(body) == IF body \in {"ausente", "nao_json"} THEN "ValueError" ELSE "none"

\* req_body.get('cpf'): only a dict has .get; a missing key gives None
get_cpf_exc(body) ==
    IF body \in {"objeto", "objeto_sem_cpf"} THEN "none" ELSE "AttributeError"

get_cpf(r) == IF r.body = "objeto" THEN r.cpf ELSE PyNone

\* evaluating the name json in json.dumps(resultado)
json_dumps_exc == IF "json" \in Imports THEN "none" ELSE "NameError"

\* 200 if resultado["valido"] else 400
status_code(res) == IF res.valido THEN 200 ELSE 400

\* what validar_cpf leaves behind: <<exception, returned dict>>
Chamada(arg) ==
    IF validar_cpf_exc(arg) = "none"
    THEN <<"none", validar_cpf(arg.str)>>
    ELSE <<validar_cpf_exc(arg), Unset>>

\* the except clauses of validar_cpf_http
Except(e) ==
    IF e = "ValueError" THEN HttpResponse([erro |-> ERRO_CORPO], 400)
    ELSE HttpResponse([erro |-> ERRO_INTERNO], 500)

----------------------------------------------------------------------------
(* Inputs *)

\* the str of a sequence of digit values
Chars(ds) == [i \in 1..Len(ds) |-> DigitChars[ds[i] + 1]]

Rep(c, n) == [i \in 1..n |-> c]

\* the first nine digits of the CPF 111.444.777-35
Base == <<1, 1, 1, 4, 4, 4, 7, 7, 7>>

\* nine-digit stems: Base with one digit changed, and one digit repeated
Stems ==
    {[i \in 1..9 |-> IF i = p THEN v ELSE Base[i]] : p \in 1..9, v \in 0..9}
        \cup {Rep(c, 9) : c \in 0..9}

Tails == [1..2 -> 0..9]

ShortDigits == UNION {[1..n -> 0..9] : n \in 0..MaxShort}

TenDigits == {s \o <<a>> : s \in Stems, a \in 0..9}

ElevenDigits == {s \o t : s \in Stems, t \in Tails}

LongDigits ==
    {Base \o t \o e : t \in Tails, e \in UNION {[1..n -> {0, 5}] : n \in 1..MaxExtra}}
        \cup {Rep(c, 11 + n) : c \in 0..9, n \in 1..MaxExtra}

DigitInputs == ShortDigits \cup TenDigits \cup ElevenDigits \cup LongDigits

\* the punctuation DDD.DDD.DDD-DD as a user types it
Pontuar(s) ==
    IF Len(s) <= 9 THEN s
    ELSE SubSeq(s, 1, 3) \o <<".">> \o SubSeq(s, 4, 6) \o <<".">>
            \o SubSeq(s, 7, 9) \o <<"-">> \o SubSeq(s, 10, Len(s))

\* a letter after every digit
RECURSIVE Intercalar(_)
Intercalar(s) == IF s = <<>> THEN <<>> ELSE <<Head(s), "a">> \o Intercalar(Tail(s))

Estilos == 0..(2 + MaxPad)

\* the digits s written in style k
Decorar(s, k) ==
    IF k = 0 THEN s
    ELSE IF k = 1 THEN Pontuar(s)
    ELSE IF k = 2 THEN Intercalar(s)
    ELSE Rep(" ", k - 2) \o s \o Rep("x", k - 2)

Cadeias == {Decorar(Chars(ds), k) : ds \in DigitInputs, k \in Estilos}

\* the strings sent over HTTP
CadeiasHttp ==
    {Decorar(Chars(ds), k) :
        ds \in ShortDigits \cup {Base \o t : t \in Tails} \cup {Rep(c, 11) : c \in 0..9},
        k \in Estilos}

\* values that are not a str: truthy and falsy numbers, booleans, lists, dicts; None
NaoCadeias ==
    {PyOther(t, f) : t \in {"int", "bool", "list", "dict"}, f \in BOOLEAN} \cup {PyNone}

CallReqs ==
    {[via |-> "call", body |-> "n/a", cpf |-> v] :
        v \in {PyStr(s) : s \in Cadeias} \cup NaoCadeias}

PostReqs ==
    {[via |-> "POST", body |-> "objeto", cpf |-> v] :
        v \in {PyStr(s) : s \in CadeiasHttp} \cup NaoCadeias}
    \cup {[via |-> "POST", body |-> b, cpf |-> PyNone] :
            b \in {"ausente", "nao_json", "objeto_sem_cpf", "lista", "null",
                   "numero", "string"}}

\* query parameters are str; an absent parameter reads as None
GetReqs ==
    {[via |-> "GET", body |-> "n/a", cpf |-> v] :
        v \in {PyStr(s) : s \in CadeiasHttp} \cup {PyNone}}

----------------------------------------------------------------------------
(* State machine *)

Init ==
    /\ req \in CallReqs \cup PostReqs \cup GetReqs
    /\ pc = "start"
    /\ called = 0
    /\ exc = "none"
    /\ resultado = Unset
    /\ prev = Unset
    /\ resposta = NoResposta

\* a direct call validar_cpf(cpf)
ValidarCpf ==
    /\ pc = "start"
    /\ req.via = "call"
    /\ called' = called + 1
    /\ exc' = Chamada(req.cpf)[1]
    /\ resultado' = Chamada(req.cpf)[2]
    /\ pc' = "done"
    /\ UNCHANGED <<req, prev, resposta>>

\* validar_cpf called again on a field of the dict it returned
Revalidar(campo) ==
    /\ pc = "done"
    /\ req.via = "call"
    /\ exc = "none"
    /\ resultado.valido
    /\ req' = [req EXCEPT !.cpf = PyStr(resultado[campo])]
    /\ called' = called + 1
    /\ prev' = resultado
    /\ exc' = Chamada(req'.cpf)[1]
    /\ resultado' = Chamada(req'.cpf)[2]
    /\ pc' = "revalidated"
    /\ UNCHANGED resposta

RevalidarNumeros == Revalidar("cpf_apenas_numeros")

RevalidarFormatado == Revalidar("cpf_formatado")

\* POST /validar-cpf
ValidarCpfHttp ==
    /\ pc = "start"
    /\ req.via = "POST"
    /\ pc' = "done"
    /\ UNCHANGED <<req, prev>>
    /\ IF get_json_exc(req.body) # "none"
       THEN /\ resposta' = Except(get_json_exc(req.body))
            /\ UNCHANGED <<called, exc, resultado>>
       ELSE IF get_cpf_exc(req.body) # "none"
       THEN /\ resposta' = Except(get_cpf_exc(req.body))
            /\ UNCHANGED <<called, exc, resultado>>
       ELSE IF Not(get_cpf(req))
       THEN /\ resposta' = HttpResponse([erro |-> ERRO_SEM_CPF_POST], 400)
            /\ UNCHANGED <<called, exc, resultado>>
       ELSE /\ called' = called + 1
            /\ exc' = Chamada(get_cpf(req))[1]
            /\ resultado' = Chamada(get_cpf(req))[2]
            /\ resposta' =
                IF exc' # "none" THEN Except(exc')
                ELSE IF json_dumps_exc # "none" THEN Except(json_dumps_exc)
                ELSE HttpResponse(resultado', status_code(resultado'))

\* GET /validar-cpf-get
ValidarCpfGet ==
    /\ pc = "start"
    /\ req.via = "GET"
    /\ pc' = "done"
    /\ UNCHANGED <<req, prev>>
    /\ IF Not(req.cpf)
       THEN /\ resposta' = HttpResponse([erro |-> ERRO_SEM_CPF_GET], 400)
            /\ UNCHANGED <<called, exc, resultado>>
       ELSE /\ called' = called + 1
            /\ exc' = Chamada(req.cpf)[1]
            /\ resultado' = Chamada(req.cpf)[2]
            /\ resposta' =
                IF exc' # "none" THEN Raised(exc')
                ELSE IF json_dumps_exc # "none" THEN Raised(json_dumps_exc)
                ELSE HttpResponse(resultado', status_code(resultado'))

Next ==
    \/ ValidarCpf
    \/ RevalidarNumeros
    \/ RevalidarFormatado
    \/ ValidarCpfHttp
    \/ ValidarCpfGet

Spec == Init /\ [][Next]_vars

----------------------------------------------------------------------------
(* Reference definitions used to state the properties.  They restate the   *)
(* CPF rules on sequences of numbers and share nothing with validar_cpf.   *)

RefVal(c) ==
    CASE c = "0" -> 0 [] c = "1" -> 1 [] c = "2" -> 2 [] c = "3" -> 3
      [] c = "4" -> 4 [] c = "5" -> 5 [] c = "6" -> 6 [] c = "7" -> 7
      [] c = "8" -> 8 [] c = "9" -> 9 [] OTHER -> -1

\* the decimal digits of a str, in order, as numbers
RECURSIVE RefDigits(_)
RefDigits(s) ==
    IF s = <<>> THEN <<>>
    ELSE (IF RefVal(Head(s)) >= 0 THEN <<RefVal(Head(s))>> ELSE <<>>)
            \o RefDigits(Tail(s))

RefCheck(sum) == IF sum % 11 < 2 THEN 0 ELSE 11 - (sum % 11)

RefSum1(d) ==
    10 * d[1] + 9 * d[2] + 8 * d[3] + 7 * d[4] + 6 * d[5] + 5 * d[6]
        + 4 * d[7] + 3 * d[8] + 2 * d[9]

RefSum2(d) ==
    11 * d[1] + 10 * d[2] + 9 * d[3] + 8 * d[4] + 7 * d[5] + 6 * d[6]
        + 5 * d[7] + 4 * d[8] + 3 * d[9] + 2 * d[10]

RefAllSame(d) == \A i \in 1..Len(d) : d[i] = d[1]

RefValid(d) ==
    /\ Len(d) = 11
    /\ ~RefAllSame(d)
    /\ d[10] = RefCheck(RefSum1(d))
    /\ d[11] = RefCheck(RefSum2(d))

\* validar_cpf has returned from a direct call with a str argument
CallDone == req.via = "call" /\ pc = "done" /\ req.cpf.tipo = "str"

\* the digits of the current str argument
D == RefDigits(req.cpf.str)

Exemplo == <<1, 1, 1, 4, 4, 4, 7, 7, 7, 3, 5>>

----------------------------------------------------------------------------
(* Properties *)

\* C1: validar_cpf returns valido = true exactly when the digits of the input
\* are 11, not all identical, and the tenth and eleventh digits equal the
\* two check digits computed with weights 10..2 and 11..2 and the rule
\* "0 when the sum mod 11 is below 2, otherwise 11 minus it".
C1_ValidoIff == CallDone => (resultado.valido <=> RefValid(D))

\* C1 witness: the CPF 11144477735 has been validated and found valid.
C1_Witness == CallDone /\ req.cpf.str = Chars(Exemplo) /\ resultado.valido

\* C2: an input whose digits are not exactly 11 (none at all included) gets
\* valido = false, the wrong-length message and no formatted value, whatever
\* the other checks would have said.
C2_TamanhoErrado ==
    (CallDone /\ Len(D) # 11) =>
        resultado = [valido |-> FALSE, erro |-> ERRO_TAMANHO, cpf_formatado |-> None]

\* C2 witness: twelve identical digits are rejected for their length, not
\* for being repeated.
C2_Witness ==
    /\ CallDone
    /\ Len(D) = 12
    /\ RefAllSame(D)
    /\ resultado.erro = ERRO_TAMANHO

\* C3: eleven copies of one digit get valido = false with the repeated-digits
\* message, although the sequence satisfies both check-digit equations.
C3_DigitosIguais ==
    (CallDone /\ Len(D) = 11 /\ RefAllSame(D)) =>
        /\ resultado = [valido |-> FALSE, erro |-> ERRO_IGUAIS, cpf_formatado |-> None]
        /\ D[10] = RefCheck(RefSum1(D))
        /\ D[11] = RefCheck(RefSum2(D))

\* C3 witness: 999.999.999-99 has been rejected as repeated digits.
C3_Witness ==
    /\ CallDone
    /\ req.cpf.str = Pontuar(Chars(Rep(9, 11)))
    /\ resultado.erro = ERRO_IGUAIS

\* the str of d with its last digit replaced by x
UltimoTrocado(d, x) == Chars([d EXCEPT ![11] = x])

\* C4: for 11 digits not all identical, a wrong tenth digit gives the
\* first-check-digit message whatever the eleventh is; a right tenth and a
\* wrong eleventh give the second-check-digit message; and a valid CPF with
\* only its last digit changed gives the second-check-digit message.
C4_OrdemDigitos ==
    (CallDone /\ Len(D) = 11 /\ ~RefAllSame(D)) =>
        /\ D[10] # RefCheck(RefSum1(D)) =>
            resultado = [valido |-> FALSE, erro |-> ERRO_DIGITO1, cpf_formatado |-> None]
        /\ (D[10] = RefCheck(RefSum1(D)) /\ D[11] # RefCheck(RefSum2(D))) =>
            resultado = [valido |-> FALSE, erro |-> ERRO_DIGITO2, cpf_formatado |-> None]
        /\ resultado.valido =>
            \A x \in (0..9) \ {D[11]} :
                validar_cpf(UltimoTrocado(D, x)) =
                    [valido |-> FALSE, erro |-> ERRO_DIGITO2, cpf_formatado |-> None]

\* C4 witness: 11144477736 has been rejected for its second check digit.
C4_Witness ==
    /\ CallDone
    /\ D = [Exemplo EXCEPT ![11] = 6]
    /\ resultado.erro = ERRO_DIGITO2

\* C5: the result depends only on the digits: the same digits written plain,
\* punctuated, mixed with letters or padded give the result just returned.
C5_SoDigitos ==
    CallDone => \A k \in Estilos : validar_cpf(Decorar(Chars(D), k)) = resultado

\* C5 witness: "111.444.777-35" has been validated, with the result of
\* "11144477735".
C5_Witness ==
    /\ CallDone
    /\ req.cpf.str = Pontuar(Chars(Exemplo))
    /\ resultado.valido
    /\ resultado = validar_cpf(Chars(Exemplo))

\* C6: a valid result has erro null, the 11 digits of the input as
\* cpf_apenas_numeros and the same digits as DDD.DDD.DDD-DD in cpf_formatado;
\* an invalid result has an erro and a null cpf_formatado.
C6_FormaDoResultado ==
    CallDone =>
        IF resultado.valido
        THEN /\ resultado.erro = NoneErro
             /\ resultado.cpf_apenas_numeros = Chars(D)
             /\ Len(resultado.cpf_formatado) = 14
             /\ \A i \in 1..14 :
                    resultado.cpf_formatado[i] =
                        CASE i \in 1..3 -> Chars(D)[i]
                          [] i = 4 -> "."
                          [] i \in 5..7 -> Chars(D)[i - 1]
                          [] i = 8 -> "."
                          [] i \in 9..11 -> Chars(D)[i - 2]
                          [] i = 12 -> "-"
                          [] i \in 13..14 -> Chars(D)[i - 3]
        ELSE /\ resultado.erro # NoneErro
             /\ resultado.cpf_formatado = None

\* C6 witness: a padded input has been found valid and formatted as
\* 111.444.777-35.
C6_Witness ==
    /\ CallDone
    /\ req.cpf.str = Decorar(Chars(Exemplo), 3)
    /\ resultado.valido
    /\ resultado.cpf_formatado =
        <<"1", "1", "1", ".", "4", "4", "4", ".", "7", "7", "7", "-", "3", "5">>

\* C7: validating again the cpf_apenas_numeros or the cpf_formatado of a
\* valid result gives valido = true with the same two fields.
C7_Idempotente ==
    pc = "revalidated" =>
        /\ exc = "none"
        /\ resultado.valido
        /\ resultado.cpf_formatado = prev.cpf_formatado
        /\ resultado.cpf_apenas_numeros = prev.cpf_apenas_numeros

\* C7 witness: the formatted output of a valid result has been validated
\* again and found valid.
C7_Witness ==
    /\ pc = "revalidated"
    /\ req.cpf.str = prev.cpf_formatado
    /\ Len(req.cpf.str) = 14
    /\ resultado.valido

\* an HTTP handler has finished
HttpDone == req.via \in {"POST", "GET"} /\ pc = "done"

\* the request carries a non-empty str as cpf
CpfCadeia ==
    /\ req.via = "POST" => req.body = "objeto"
    /\ req.cpf.tipo = "str"
    /\ Len(req.cpf.str) > 0

\* C8: for a non-empty string cpf both endpoints answer 200 with the
\* validation result when it is valid and 400 with it when it is not, and
\* neither answers 500 or raises.
C8_RespostaHttp ==
    (HttpDone /\ CpfCadeia) =>
        /\ resposta.raised = "none"
        /\ resposta.status = IF validar_cpf(req.cpf.str).valido THEN 200 ELSE 400
        /\ resposta.body = validar_cpf(req.cpf.str)

\* C9: validar_cpf never raises, and a cpf that is not a string is answered
\* with valido = false and an invalid-input reason, so that the POST handler
\* does not answer 500 for it.
C9_NuncaLevanta ==
    /\ (req.via = "call" /\ pc = "done") =>
        /\ exc = "none"
        /\ req.cpf.tipo # "str" =>
            /\ ~resultado.valido
            /\ resultado.erro \notin
                {NoneErro, ERRO_TAMANHO, ERRO_IGUAIS, ERRO_DIGITO1, ERRO_DIGITO2}
    /\ (HttpDone /\ req.via = "POST" /\ req.body = "objeto" /\ req.cpf.tipo # "str") =>
        /\ exc = "none"
        /\ resposta.status # 500

\* the request carries no cpf
SemCpf ==
    \/ req.via = "POST" /\ req.body # "objeto"
    \/ req.via = "GET" /\ req.cpf.tipo = "None"

\* C10: a POST with no body, with a body that is not JSON or with JSON that
\* has no cpf field, and a GET without the cpf parameter, are answered 400
\* without calling the validator; the absent field gets the missing-input
\* message.
C10_SemCpf400 ==
    (HttpDone /\ SemCpf) =>
        /\ resposta.raised = "none"
        /\ resposta.status = 400
        /\ called = 0
        /\ req.body = "objeto_sem_cpf" => resposta.body = [erro |-> ERRO_SEM_CPF_POST]

====
